---- MODULE Spec2Model ----
(***************************************************************************)
(* Model of static/mods/parsing.js of tendril-wiki: the ComponentRegister  *)
(* save coordinator (registry, state machine, cross-context message        *)
(* handler, outbound write) and the markup codec (textToHtml, htmlToText). *)
(***************************************************************************)
EXTENDS Integers, Sequences, FiniteSets, TLC

VARIABLES
  state,       \* [context -> machine state]            (#machine.state)
  components,  \* [context -> sequence of <key, value>] (this.components, in key order)
  inbox,       \* [context -> messages posted on the channel, not yet handled]
  net,         \* [context -> outbound writes issued and not yet answered]
  mru,         \* [context -> titles updateMRU was called with]
  issued,      \* [context -> number of fetch calls made]
  last,        \* the step taken last (history)
  text,        \* the plain text handed to textToHtml (a sequence of characters)
  html,        \* the string textToHtml returned
  el,          \* the children of the element handed to htmlToText
  lastIndex,   \* URL_REGEXP.lastIndex
  pc,          \* the codec call made last
  calls        \* number of htmlToText calls made

coordinator == <<state, components, inbox, net, mru, issued, last>>
codec == <<text, html, el, lastIndex, pc, calls>>
vars == <<state, components, inbox, net, mru, issued, last, text, html, el, lastIndex, pc, calls>>

(* ------------------------------ bounds --------------------------------- *)

\* Writes one coordinator may issue in a run.
MaxWrites == 2
\* Messages that may wait in the inbox of one context.
MaxQueue == 1

(* ------------------------------ values --------------------------------- *)

\* The JavaScript value undefined, where it is read as a content.
Undefined == "<undefined>"

\* The global CURRENT_TITLE the page sets at load time.
CURRENT_TITLE == "Old"

Obj(i, c) == [kind |-> "object", id |-> i, content |-> c]
Str(s) == [kind |-> "string", str |-> s]
NoData == [kind |-> "undefined"]

Msg(t, d) == [type |-> t, data |-> d]

\* The characters of every key the model uses (String.prototype.includes
\* works on them).
Chars ==
  [k \in {"title", "tag", "metadata", "block-1", "block-2", "block-3", "undefined"} |->
     CASE k = "title" -> <<"t", "i", "t", "l", "e">>
       [] k = "tag" -> <<"t", "a", "g">>
       [] k = "metadata" -> <<"m", "e", "t", "a", "d", "a", "t", "a">>
       [] k = "block-1" -> <<"b", "l", "o", "c", "k", "-", "1">>
       [] k = "block-2" -> <<"b", "l", "o", "c", "k", "-", "2">>
       [] k = "block-3" -> <<"b", "l", "o", "c", "k", "-", "3">>
       [] k = "undefined" -> <<"u", "n", "d", "e", "f", "i", "n", "e", "d">>]

BlockChars == <<"b", "l", "o", "c", "k">>

\* key.includes(type), on character sequences.
includes(key, type) ==
  \E i \in 0..(Len(key) - Len(type)) :
     \A j \in 1..Len(type) : key[i + j] = type[j]

(* --------------------------- state machine ----------------------------- *)

\* A chart whose COMPLETE leads to error.
stateChart_CompleteToError ==
  [initial |-> "idle",
   states |->
     [idle |-> {<<"SUBMITTING", "submitting">>},
      submitting |-> {<<"COMPLETE", "error">>, <<"ERROR", "error">>},
      error |-> {<<"RESET", "idle">>}]]

stateChart ==
  [initial |-> "idle",
   states |->
     [idle |-> {<<"SUBMITTING", "submitting">>},
      submitting |-> {<<"COMPLETE", "idle">>, <<"ERROR", "error">>},
      error |-> {<<"RESET", "idle">>}]]

\* StateMachine.send: the transition the chart lists for the event in the
\* current state, and no change when it lists none.
send(s, event) ==
  IF \E t \in stateChart.states[s] : t[1] = event
    THEN (CHOOSE t \in stateChart.states[s] : t[1] = event)[2]
    ELSE s

\* updateMRU(title): the collaborator records the title.
updateMRU(m, title) == Append(m, title)

(* ------------------------------ registry ------------------------------- *)

HasKey(reg, k) == \E i \in 1..Len(reg) : reg[i].key = k

Lookup(reg, k) == reg[CHOOSE i \in 1..Len(reg) : reg[i].key = k].val

\* A registry that moves a key it overwrites to the last place.
SetKey_MovesToEnd(reg, k, v) ==
  Append(SelectSeq(reg, LAMBDA e : e.key # k), [key |-> k, val |-> v])

\* this.components[k] = v: an existing key keeps its place, a new one is last.
SetKey(reg, k, v) ==
  IF HasKey(reg, k)
    THEN [i \in 1..Len(reg) |-> IF reg[i].key = k THEN [key |-> k, val |-> v] ELSE reg[i]]
    ELSE Append(reg, [key |-> k, val |-> v])

\* const { id } = component: a string has no id property, and the key
\* undefined is the property name "undefined".
IdOf(component) == IF component.kind = "object" THEN component.id ELSE "undefined"

\* A register that leaves an entry that exists as it is.
register_KeepsExisting(reg, component) ==
  IF HasKey(reg, IdOf(component)) THEN reg ELSE SetKey(reg, IdOf(component), component)

register(reg, component) == SetKey(reg, IdOf(component), component)

\* An unregister that clears the entry and keeps its key.
unregister_KeepsSlot(reg, data) ==
  [i \in 1..Len(reg) |->
     IF data.kind = "string" /\ reg[i].key = data.str
       THEN [key |-> reg[i].key, val |-> NoData]
       ELSE reg[i]]

\* delete this.components[id], id being the message's data.
unregister(reg, data) ==
  IF data.kind = "string"
    THEN SelectSeq(reg, LAMBDA e : e.key # data.str)
    ELSE reg

Vals(s) == [i \in 1..Len(s) |-> s[i].val]

getType(reg, type) == Vals(SelectSeq(reg, LAMBDA e : includes(Chars[e.key], type)))

\* v.content
ContentOf(v) == IF v.kind = "object" THEN v.content ELSE Undefined

\* Array.prototype.join: undefined elements are joined as the empty string.
RECURSIVE join(_, _)
join(s, sep) ==
  IF Len(s) = 0 THEN ""
  ELSE LET h == IF s[1] = Undefined THEN "" ELSE s[1]
       IN IF Len(s) = 1 THEN h ELSE h \o sep \o join(Tail(s), sep)

(* ------------------------------ savePage ------------------------------- *)

\* this.components[messageData.id].content = messageData.content raises a
\* TypeError when the entry is missing or is a primitive string.
MergeThrows(reg, messageData) ==
  /\ messageData.kind = "object"
  /\ \/ ~HasKey(reg, messageData.id)
     \/ Lookup(reg, messageData.id).kind # "object"

Merge(reg, messageData) ==
  IF messageData.kind = "object" /\ ~MergeThrows(reg, messageData)
    THEN SetKey(reg, messageData.id,
                [Lookup(reg, messageData.id) EXCEPT !.content = messageData.content])
    ELSE reg

\* this.components.title.content (tag, metadata) raises when the entry is missing.
ReadThrows(reg) ==
  \/ ~HasKey(reg, "title")
  \/ ~HasKey(reg, "tag")
  \/ ~HasKey(reg, "metadata")

constructedBody(reg) ==
  [body |-> join([i \in 1..Len(getType(reg, BlockChars)) |->
                    ContentOf(getType(reg, BlockChars)[i])], "\n"),
   title |-> ContentOf(Lookup(reg, "title")),
   old_title |-> CURRENT_TITLE,
   tags |-> ContentOf(Lookup(reg, "tag")),
   metadata |-> ContentOf(Lookup(reg, "metadata"))]

\* A savePage that assembles the snapshot before it merges the partial.
savePage_AssemblesBeforeMerge(c, messageData) ==
  LET merged == Merge(components[c], messageData)
      threw == MergeThrows(components[c], messageData) \/ ReadThrows(merged)
  IN /\ state' = [state EXCEPT ![c] = send(state[c], "SUBMITTING")]
     /\ components' = [components EXCEPT ![c] = merged]
     /\ net' = IF threw THEN net
               ELSE [net EXCEPT ![c] = Append(net[c], constructedBody(components[c]))]
     /\ issued' = IF threw THEN issued ELSE [issued EXCEPT ![c] = issued[c] + 1]
     /\ last' = [op |-> "message", ctx |-> c, msg |-> Msg("SAVE", messageData),
                 status |-> 0, pre |-> state[c], threw |-> threw]

\* The synchronous part of savePage: SUBMITTING, merge, assemble, fetch.
savePage(c, messageData) ==
  LET merged == Merge(components[c], messageData)
      threw == MergeThrows(components[c], messageData) \/ ReadThrows(merged)
  IN /\ state' = [state EXCEPT ![c] = send(state[c], "SUBMITTING")]
     /\ components' = [components EXCEPT ![c] = merged]
     /\ net' = IF threw THEN net
               ELSE [net EXCEPT ![c] = Append(net[c], constructedBody(merged))]
     /\ issued' = IF threw THEN issued ELSE [issued EXCEPT ![c] = issued[c] + 1]
     /\ last' = [op |-> "message", ctx |-> c, msg |-> Msg("SAVE", messageData),
                 status |-> 0, pre |-> state[c], threw |-> threw]

(* ---------------------------- handleMessage ---------------------------- *)

\* The registry after the switch of handleMessage: UNREGISTER falls through
\* into REGISTER, REGISTER falls through into default.
AfterSwitch(reg, m) ==
  CASE m.type = "UNREGISTER" -> register(unregister(reg, m.data), m.data)
    [] m.type = "REGISTER" -> register(reg, m.data)
    [] OTHER -> reg

\* A guard that only turns a SAVE away after an error.
SaveAccepted_UnlessError(s) == s # "error"

\* A guard that is missing.
SaveAccepted_Always(s) == TRUE

\* this.#machine.state === "idle"
SaveAccepted(s) == s = "idle"

\* A handler that merges the data of a SAVE before it looks at the state.
handleMessage_MergesBeforeGuard(c, m) ==
  IF m.type = "SAVE"
    THEN IF SaveAccepted(state[c])
           THEN savePage(c, m.data)
           ELSE /\ components' = [components EXCEPT ![c] = Merge(components[c], m.data)]
                /\ last' = [op |-> "message", ctx |-> c, msg |-> m, status |-> 0,
                            pre |-> state[c], threw |-> FALSE]
                /\ UNCHANGED <<state, net, issued>>
    ELSE /\ components' = [components EXCEPT ![c] = AfterSwitch(components[c], m)]
         /\ last' = [op |-> "message", ctx |-> c, msg |-> m, status |-> 0,
                     pre |-> state[c], threw |-> FALSE]
         /\ UNCHANGED <<state, net, issued>>

handleMessage(c, m) ==
  IF m.type = "SAVE"
    THEN IF SaveAccepted(state[c])
           THEN savePage(c, m.data)
           ELSE /\ last' = [op |-> "message", ctx |-> c, msg |-> m, status |-> 0,
                            pre |-> state[c], threw |-> FALSE]
                /\ UNCHANGED <<state, components, net, issued>>
    ELSE /\ components' = [components EXCEPT ![c] = AfterSwitch(components[c], m)]
         /\ last' = [op |-> "message", ctx |-> c, msg |-> m, status |-> 0,
                     pre |-> state[c], threw |-> FALSE]
         /\ UNCHANGED <<state, net, issued>>

(* ------------------------------- actions ------------------------------- *)

Contexts == DOMAIN state

\* The module is loaded and no codec function has been called.
CodecLoaded ==
  /\ text = <<>> /\ html = <<>> /\ el = <<>>
  /\ lastIndex = 0 /\ pc = "loaded" /\ calls = 0

\* new ComponentRegister() in every context of cs.
Constructed(cs) ==
  /\ state = [c \in cs |-> stateChart.initial]
  /\ components = [c \in cs |-> <<>>]
  /\ inbox = [c \in cs |-> <<>>]
  /\ net = [c \in cs |-> <<>>]
  /\ mru = [c \in cs |-> <<>>]
  /\ issued = [c \in cs |-> 0]
  /\ last = [op |-> "init", ctx |-> "-", msg |-> Msg("-", NoData), status |-> 0,
             pre |-> "-", threw |-> FALSE]

\* A SAVE that would be accepted is sent only while the run's writes last.
Sendable(c, m) == m.type = "SAVE" /\ SaveAccepted(state[c]) => issued[c] < MaxWrites

\* The channel hands message m to the handler of context c.
Receive(c, m) ==
  /\ Sendable(c, m)
  /\ handleMessage(c, m)
  /\ UNCHANGED <<inbox, mru>>
  /\ UNCHANGED codec

\* A success test that takes only the 2xx statuses.
IsSuccess_Only2xx(status) == status < 300

\* res.status < 400
IsSuccess(status) == status < 400

\* fetch resolves with a response of the given status.
Respond(c, status) ==
  /\ Len(net[c]) > 0
  /\ net' = [net EXCEPT ![c] = Tail(net[c])]
  /\ IF IsSuccess(status)
       THEN /\ mru' = [mru EXCEPT ![c] = updateMRU(mru[c], Head(net[c]).title)]
            /\ state' = [state EXCEPT ![c] = send(state[c], "COMPLETE")]
       ELSE UNCHANGED <<mru, state>>
  /\ last' = [op |-> "response", ctx |-> c, msg |-> Msg("-", NoData), status |-> status,
              pre |-> state[c], threw |-> FALSE]
  /\ UNCHANGED <<components, inbox, issued>>
  /\ UNCHANGED codec

\* A catch handler that issues the write again.
Reject_Retries(c) ==
  /\ Len(net[c]) > 0
  /\ net' = [net EXCEPT ![c] = Append(Tail(net[c]), Head(net[c]))]
  /\ issued' = [issued EXCEPT ![c] = issued[c] + 1]
  /\ state' = [state EXCEPT ![c] = send(state[c], "ERROR")]
  /\ last' = [op |-> "reject", ctx |-> c, msg |-> Msg("-", NoData), status |-> 0,
              pre |-> state[c], threw |-> FALSE]
  /\ UNCHANGED <<components, inbox, mru>>
  /\ UNCHANGED codec

\* fetch rejects (network failure).
Reject(c) ==
  /\ Len(net[c]) > 0
  /\ net' = [net EXCEPT ![c] = Tail(net[c])]
  /\ state' = [state EXCEPT ![c] = send(state[c], "ERROR")]
  /\ last' = [op |-> "reject", ctx |-> c, msg |-> Msg("-", NoData), status |-> 0,
              pre |-> state[c], threw |-> FALSE]
  /\ UNCHANGED <<components, inbox, mru, issued>>
  /\ UNCHANGED codec

Statuses == {200, 399, 400, 500}

(* ------------------- one coordinator (specification Spec) -------------- *)

\* The components the page mounts beside its blocks.
Mounted == {Obj("title", "T"), Obj("tag", "G"), Obj("metadata", "M")}

\* The data of a SAVE: none, an edit of the title, an edit of a block.
Partials == {NoData, Obj("title", "T2"), Obj("block-1", "c")}

Messages ==
  {Msg("REGISTER", d) : d \in Mounted}
    \cup {Msg("UNREGISTER", Str("title"))}
    \cup {Msg("SAVE", d) : d \in Partials}

Init == CodecLoaded /\ Constructed({"A"})

OnMessage == \E c \in Contexts, m \in Messages : Receive(c, m)
OnResponse == \E c \in Contexts, s \in Statuses : Respond(c, s)
OnReject == \E c \in Contexts : Reject(c)

Next == OnMessage \/ OnResponse \/ OnReject

Spec == Init /\ [][Next]_vars

(* ---------------- the registry (specification SpecRegistry) ------------ *)

Blocks ==
  {Obj(i, c) : i \in {"block-1", "block-2", "block-3"}, c \in {"a", "b"}}

RegistryMessages ==
  {Msg("REGISTER", d) : d \in Blocks}
    \cup {Msg("UNREGISTER", Str(i)) : i \in {"block-1", "block-2", "block-3"}}

OnRegistryMessage == \E c \in Contexts, m \in RegistryMessages : Receive(c, m)

NextRegistry == OnRegistryMessage

SpecRegistry == Init /\ [][NextRegistry]_vars

(* ------------- assembling a snapshot (specification SpecSave) ---------- *)

SaveMounted == Mounted \cup {Obj("block-1", "a"), Obj("block-2", "b")}

\* The data of a SAVE: none, an edit of a block, an edit of the title.
SavePartials == {NoData, Obj("block-1", "c"), Obj("title", "T2")}

SaveMessages ==
  {Msg("REGISTER", d) : d \in SaveMounted}
    \cup {Msg("SAVE", d) : d \in SavePartials}

OnSaveMessage == \E c \in Contexts, m \in SaveMessages : Receive(c, m)

NextSave == OnSaveMessage \/ OnResponse \/ OnReject

SpecSave == Init /\ [][NextSave]_vars

(* ----------- two contexts on one channel (specification SpecMulti) ----- *)

Tabs == {"A", "B"}

\* A channel object that belongs to no coordinator (a component's own).
Outside == "page"

\* An edit of the title component, and a save.
MultiMessages == {Msg("REGISTER", Obj("title", "T2")), Msg("SAVE", NoData)}

\* Every BroadcastChannel of the document's name but the posting one.
Receivers(sender) == Contexts \ {sender}

\* postMessage(m) on the channel object of sender: a message event is queued
\* for every other channel object of that name.
Post(sender, m) ==
  /\ \A c \in Receivers(sender) : Len(inbox[c]) < MaxQueue
  /\ inbox' = [c \in Contexts |->
                 IF c \in Receivers(sender) THEN Append(inbox[c], m) ELSE inbox[c]]
  /\ last' = [op |-> "post", ctx |-> sender, msg |-> m, status |-> 0,
              pre |-> "-", threw |-> FALSE]
  /\ UNCHANGED <<state, components, net, mru, issued>>
  /\ UNCHANGED codec

\* The message event at the head of the inbox of c runs bc.onmessage.
Deliver(c) ==
  /\ Len(inbox[c]) > 0
  /\ Sendable(c, Head(inbox[c]))
  /\ handleMessage(c, Head(inbox[c]))
  /\ inbox' = [inbox EXCEPT ![c] = Tail(inbox[c])]
  /\ UNCHANGED mru
  /\ UNCHANGED codec

\* Both tabs have loaded the page: each has constructed its coordinator and
\* handled the REGISTER messages of the title, tag and metadata components
\* (the state Spec reaches from construction by those three messages).
InitMulti ==
  /\ CodecLoaded
  /\ state = [c \in Tabs |-> stateChart.initial]
  /\ components =
       [c \in Tabs |->
          register(register(register(<<>>, Obj("title", "T")), Obj("tag", "G")),
                   Obj("metadata", "M"))]
  /\ inbox = [c \in Tabs |-> <<>>]
  /\ net = [c \in Tabs |-> <<>>]
  /\ mru = [c \in Tabs |-> <<>>]
  /\ issued = [c \in Tabs |-> 0]
  /\ last = [op |-> "init", ctx |-> "-", msg |-> Msg("-", NoData), status |-> 0,
             pre |-> "-", threw |-> FALSE]

OnPost == \E s \in Tabs \cup {Outside}, m \in MultiMessages : Post(s, m)
OnDeliver == \E c \in Contexts : Deliver(c)

NextMulti == OnPost \/ OnDeliver \/ OnResponse \/ OnReject

SpecMulti == InitMulti /\ [][NextMulti]_vars

(* -------- registering again (specification SpecReorder) --------------- *)

ReorderMessages ==
  {Msg("REGISTER", d) : d \in Mounted \cup {Obj("block-1", "a"), Obj("block-2", "b")}}
    \cup {Msg("UNREGISTER", Str("block-1"))}
    \cup {Msg("SAVE", NoData)}

OnReorderMessage == \E c \in Contexts, m \in ReorderMessages : Receive(c, m)

NextReorder == OnReorderMessage \/ OnResponse \/ OnReject

SpecReorder == Init /\ [][NextReorder]_vars

(* ------------------------ the markup codec ---------------------------- *)

\* A JavaScript string is modelled as the sequence of its characters.
LowerCase ==
  <<"a", "b", "c", "d", "e", "f", "g", "h", "i", "j", "k", "l", "m",
    "n", "o", "p", "q", "r", "s", "t", "u", "v", "w", "x", "y", "z">>

UpperCase ==
  <<"A", "B", "C", "D", "E", "F", "G", "H", "I", "J", "K", "L", "M",
    "N", "O", "P", "Q", "R", "S", "T", "U", "V", "W", "X", "Y", "Z">>

Digits == {"0", "1", "2", "3", "4", "5", "6", "7", "8", "9"}

Range(f) == {f[i] : i \in DOMAIN f}

\* [a-zA-Z0-9]
Alnum == Range(LowerCase) \cup Range(UpperCase) \cup Digits

\* The i flag of a pattern: characters are compared after case folding.
toLowerCase(ch) ==
  IF ch \in Range(UpperCase)
    THEN LowerCase[CHOOSE i \in DOMAIN UpperCase : UpperCase[i] = ch]
    ELSE ch

\* String s holds string p at place i (places count from 1).
StartsWithAt(s, p, i) ==
  /\ i >= 1
  /\ i + Len(p) - 1 <= Len(s)
  /\ \A k \in 1..Len(p) : s[i + k - 1] = p[k]

\* The same with the i flag (p is written in lower case).
StartsWithAtIgnoreCase(s, p, i) ==
  /\ i >= 1
  /\ i + Len(p) - 1 <= Len(s)
  /\ \A k \in 1..Len(p) : toLowerCase(s[i + k - 1]) = p[k]

EndsWithIgnoreCase(s, p) == StartsWithAtIgnoreCase(s, p, Len(s) - Len(p) + 1)

\* The first place at or after from where s holds p; 0 when there is none.
indexOf(s, p, from) ==
  LET hits == {i \in from..(Len(s) - Len(p) + 1) : StartsWithAt(s, p, i)}
  IN IF hits = {} THEN 0 ELSE CHOOSE i \in hits : \A j \in hits : i <= j

\* String.prototype.includes on strings of characters.
Contains(s, p) == indexOf(s, p, 1) # 0

\* String.prototype.slice(from) with from counted from 0.
slice(s, from) == SubSeq(s, from + 1, Len(s))

\* String.prototype.replace with a string pattern: the first occurrence of p
\* in s, wherever it is, is replaced.
replace(s, p, r) ==
  LET i == indexOf(s, p, 1)
  IN IF i = 0 THEN s
     ELSE SubSeq(s, 1, i - 1) \o r \o SubSeq(s, i + Len(p), Len(s))

\* String.prototype.replaceAll with a string pattern.
RECURSIVE replaceAll(_, _, _)
replaceAll(s, p, r) ==
  LET i == indexOf(s, p, 1)
  IN IF i = 0 THEN s
     ELSE SubSeq(s, 1, i - 1) \o r \o replaceAll(SubSeq(s, i + Len(p), Len(s)), p, r)

\* String.prototype.split with a separator of one character.
RECURSIVE split(_, _)
split(s, sep) ==
  LET i == indexOf(s, <<sep>>, 1)
  IN IF i = 0 THEN <<s>>
     ELSE <<SubSeq(s, 1, i - 1)>> \o split(SubSeq(s, i + 1, Len(s)), sep)

\* Array.prototype.join on strings of characters.
RECURSIVE joinWith(_, _)
joinWith(parts, sep) ==
  IF Len(parts) = 0 THEN <<>>
  ELSE IF Len(parts) = 1 THEN parts[1]
  ELSE parts[1] \o sep \o joinWith(Tail(parts), sep)

\* The end (the place after the last character) of the longest run of
\* characters of class cls that starts at place i of s.
RECURSIVE RunEnd(_, _, _)
RunEnd(s, cls, i) ==
  IF i <= Len(s) /\ s[i] \in cls THEN RunEnd(s, cls, i + 1) ELSE i

\* Characters encodeURIComponent leaves as they are.
Unreserved == Alnum \cup {"-", "_", ".", "!", "~", "*", "'", "(", ")"}

\* The escape sequences of the other characters a wiki-link may hold.
Escapes ==
  [ch \in {" ", "?", ":", "|", "%"} |->
     CASE ch = " " -> <<"%", "2", "0">>
       [] ch = "?" -> <<"%", "3", "F">>
       [] ch = ":" -> <<"%", "3", "A">>
       [] ch = "|" -> <<"%", "7", "C">>
       [] ch = "%" -> <<"%", "2", "5">>]

RECURSIVE encodeURIComponent(_)
encodeURIComponent(s) ==
  IF s = <<>> THEN <<>>
  ELSE (IF Head(s) \in DOMAIN Escapes THEN Escapes[Head(s)] ELSE <<Head(s)>>)
         \o encodeURIComponent(Tail(s))

RECURSIVE decodeURIComponent(_)
decodeURIComponent(s) ==
  IF s = <<>> THEN <<>>
  ELSE IF \E ch \in DOMAIN Escapes : StartsWithAt(s, Escapes[ch], 1)
    THEN <<CHOOSE ch \in DOMAIN Escapes : StartsWithAt(s, Escapes[ch], 1)>>
           \o decodeURIComponent(SubSeq(s, 4, Len(s)))
    ELSE <<Head(s)>> \o decodeURIComponent(Tail(s))

\* A match of a pattern: the place it starts at and the place after its end;
\* NoMatch when the pattern does not match.
NoMatch == [from |-> 0, to |-> 0]

Matched(s, m) == SubSeq(s, m.from, m.to - 1)

\* WIKI_LINK_REGEXP: [[ , one or more characters of the class, ]] .
WikiChar == Alnum \cup {" ", "?", "-", "'", ":", "_", "(", "|", ")"}

WIKI_LINK_REGEXP(s, i) ==
  LET j == RunEnd(s, WikiChar, i + 2)
  IN IF StartsWithAt(s, <<"[", "[">>, i) /\ j > i + 2 /\ StartsWithAt(s, <<"]", "]">>, j)
       THEN [from |-> i, to |-> j + 2]
       ELSE NoMatch

\* URL_REGEXP: a prefix, then any number of characters of the inner class or
\* groups in parentheses, then one character of the end class or one group.
URLPrefixes ==
  { <<"h", "t", "t", "p", ":", "/", "/">>, <<"h", "t", "t", "p", "s", ":", "/", "/">>,
    <<"f", "t", "p", ":", "/", "/">>, <<"f", "i", "l", "e", ":", "/", "/">>,
    <<"w", "w", "w", ".">>, <<"f", "t", "p", ".">> }

URLEndChar == Alnum \cup {"+", "&", "@", "#", "/", "%", "=", "~", "_", "|", "$"}

URLChar == URLEndChar \cup {"-", "?", "!", ":", "."}

\* The end of the longest run of inner characters and groups from place i.
RECURSIVE URLRunEnd(_, _)
URLRunEnd(s, i) ==
  IF i > Len(s) THEN i
  ELSE IF toLowerCase(s[i]) \in URLChar THEN URLRunEnd(s, i + 1)
  ELSE IF s[i] = "("
    THEN LET j == RunEnd(s, URLChar, i + 1)
         IN IF j <= Len(s) /\ s[j] = ")" THEN URLRunEnd(s, j + 1) ELSE i
  ELSE i

\* Backtracking: the run is given back character by character until its last
\* item is a group or a character of the end class.
RECURSIVE URLTrim(_, _, _)
URLTrim(s, lo, e) ==
  IF e <= lo THEN lo
  ELSE IF s[e - 1] = ")" \/ s[e - 1] \in URLEndChar THEN e
  ELSE URLTrim(s, lo, e - 1)

URL_REGEXP(s, i) ==
  IF \E p \in URLPrefixes : StartsWithAtIgnoreCase(s, p, i)
    THEN LET p  == CHOOSE q \in URLPrefixes : StartsWithAtIgnoreCase(s, q, i)
             lo == i + Len(p)
             e  == URLTrim(s, lo, URLRunEnd(s, lo))
         IN IF e > lo THEN [from |-> i, to |-> e] ELSE NoMatch
    ELSE NoMatch

\* EMAIL_REGEXP: a run of local characters, @, and labels joined by dots; a
\* label starts and ends with a letter or digit and may hold hyphens (the
\* grave accent of the local class, which no text of the model holds, is
\* left out).
EmailLocalChar ==
  Alnum \cup {".", "!", "#", "$", "%", "&", "'", "*", "+", "/", "=", "?", "^", "_",
              "{", "|", "}", "~", "-"}

RECURSIVE LabelTrim(_, _, _)
LabelTrim(s, lo, e) ==
  IF e <= lo THEN lo
  ELSE IF s[e - 1] \in Alnum THEN e
  ELSE LabelTrim(s, lo, e - 1)

\* The end of the label that starts at place i (s[i] is a letter or digit).
LabelEnd(s, i) == LabelTrim(s, i + 1, RunEnd(s, Alnum \cup {"-"}, i + 1))

RECURSIVE DomainEnd(_, _)
DomainEnd(s, i) ==
  LET e == LabelEnd(s, i)
  IN IF e + 1 <= Len(s) /\ s[e] = "." /\ s[e + 1] \in Alnum
       THEN DomainEnd(s, e + 1)
       ELSE e

EMAIL_REGEXP(s, i) ==
  LET j == RunEnd(s, EmailLocalChar, i)
  IN IF j > i /\ j + 1 <= Len(s) /\ s[j] = "@" /\ s[j + 1] \in Alnum
       THEN [from |-> i, to |-> DomainEnd(s, j + 1)]
       ELSE NoMatch

\* The match of pattern re that starts at place i of s.
MatchAt(re, s, i) ==
  CASE re = "WIKI_LINK_REGEXP" -> WIKI_LINK_REGEXP(s, i)
    [] re = "URL_REGEXP" -> URL_REGEXP(s, i)
    [] re = "EMAIL_REGEXP" -> EMAIL_REGEXP(s, i)

\* RegExp.prototype.exec of a pattern with the g flag: the leftmost match
\* that starts at or after index li (indexes count from 0); none when li
\* is past the end of s.
exec(re, s, li) ==
  LET starts == {i \in (li + 1)..Len(s) : MatchAt(re, s, i) # NoMatch}
  IN IF starts = {} THEN NoMatch
     ELSE MatchAt(re, s, CHOOSE i \in starts : \A j \in starts : i <= j)

\* String.prototype.matchAll: the matches of a copy of the pattern, taken one
\* after the other; the copy starts at the lastIndex of the pattern and the
\* pattern itself is left as it is.
RECURSIVE matchAll(_, _, _)
matchAll(re, s, li) ==
  LET m == exec(re, s, li)
  IN IF m = NoMatch THEN <<>> ELSE <<m>> \o matchAll(re, s, m.to - 1)

\* RegExp.prototype.test of a pattern with the g flag: the search starts at
\* lastIndex; a match leaves lastIndex at its end, a failure at 0.
test(re, s, li) ==
  LET m == exec(re, s, li)
  IN [result |-> m # NoMatch, lastIndex |-> IF m = NoMatch THEN 0 ELSE m.to - 1]

\* IMAGE_REGEXP.test (no g flag, no state): anything, a dot, one of the
\* extensions, and the end of the string.
ImageExtensions ==
  { <<"j", "p", "g">>, <<"j", "p", "e", "g">>, <<"p", "n", "g">>, <<"g", "i", "f">>,
    <<"w", "e", "b", "p">>, <<"a", "p", "n", "g">>, <<"a", "v", "i", "f">>,
    <<"j", "f", "i", "f">>, <<"p", "j", "p", "e", "g">>, <<"p", "j", "p">> }

IMAGE_REGEXP(s) == \E x \in ImageExtensions : EndsWithIgnoreCase(s, <<".">> \o x)

isSpecialtyUrl(url) == IMAGE_REGEXP(url)

\* The markup the encoder writes.
Anchor(href, txt) ==
  <<"<", "a", " ", "h", "r", "e", "f", "=", "\"">> \o href \o <<"\"", ">">>
    \o txt \o <<"<", "/", "a", ">">>

Image(src) == <<"<", "i", "m", "g", " ", "s", "r", "c", "=", "\"">> \o src \o <<"\"", ">">>

BR == <<"<", "b", "r", ">">>

MAILTO == <<"m", "a", "i", "l", "t", "o", ":">>

parseSpecialtyUrl(url) == IF IMAGE_REGEXP(url) THEN Image(url) ELSE <<>>

\* The loop of parseWikiLinks over the matches ms of the line it was given.
RECURSIVE WikiLinksLoop(_, _, _)
WikiLinksLoop(line, ms, finalString) ==
  IF ms = <<>> THEN finalString
  ELSE LET match0 == Matched(line, Head(ms))
           match1 == SubSeq(line, Head(ms).from + 2, Head(ms).to - 3)
           alias  == split(match1, "|")
           link   == IF Len(alias) > 1
                       THEN Anchor(<<"/">> \o encodeURIComponent(alias[2]), alias[1])
                       ELSE Anchor(<<"/">> \o encodeURIComponent(match1), match1)
       IN WikiLinksLoop(line, Tail(ms), replaceAll(finalString, match0, link))

parseWikiLinks(line) == WikiLinksLoop(line, matchAll("WIKI_LINK_REGEXP", line, 0), line)

\* The loop of parseURLs over the matches ms of the string it was given.
RECURSIVE URLsLoop(_, _, _)
URLsLoop(given, ms, txt) ==
  IF ms = <<>> THEN txt
  ELSE LET url == Matched(given, Head(ms))
       IN URLsLoop(given, Tail(ms),
                   replace(txt, url, IF isSpecialtyUrl(url) THEN parseSpecialtyUrl(url)
                                                           ELSE Anchor(url, url)))

\* parseURLs, with URL_REGEXP.lastIndex at li when it is called.
parseURLs(given, li) == URLsLoop(given, matchAll("URL_REGEXP", given, li), given)

\* The loop of parseEmails over the matches ms of the string it was given.
RECURSIVE EmailsLoop(_, _, _)
EmailsLoop(given, ms, txt) ==
  IF ms = <<>> THEN txt
  ELSE LET email == Matched(given, Head(ms))
       IN EmailsLoop(given, Tail(ms), replace(txt, email, Anchor(MAILTO \o email, email)))

parseEmails(given) == EmailsLoop(given, matchAll("EMAIL_REGEXP", given, 0), given)

\* textToHtml, with URL_REGEXP.lastIndex at li when it is called.
textToHtml(t, li) ==
  LET lines == split(t, "\n")
  IN joinWith([k \in 1..Len(lines) |-> parseEmails(parseURLs(parseWikiLinks(lines[k]), li))], BR)

\* The first place at or after i where s holds a character of stops; the
\* place after the end of s when there is none.
RECURSIVE FirstOf(_, _, _)
FirstOf(s, stops, i) ==
  IF i <= Len(s) /\ s[i] \notin stops THEN FirstOf(s, stops, i + 1) ELSE i

\* The page holds a text of ts that it is about to hand to textToHtml; no
\* codec function has been called.
Given(ts) ==
  /\ text \in ts /\ html = <<>> /\ el = <<>>
  /\ lastIndex = 0 /\ pc = "given" /\ calls = 0

\* textToHtml(text) is called.
Encode ==
  /\ pc = "given"
  /\ html' = textToHtml(text, lastIndex)
  /\ pc' = "textToHtml"
  /\ UNCHANGED <<text, el, lastIndex, calls>>
  /\ UNCHANGED coordinator

(* ------------- encoding URLs (specification SpecEncode) --------------- *)

\* The URLs handed to the encoder: a prefix, a host with or without a user
\* part, a path and a query string or fragment.
UrlPrefixes ==
  { <<"h", "t", "t", "p", "s", ":", "/", "/">>,
      <<"w", "w", "w", ".">>,
      <<"H", "T", "T", "P", ":", "/", "/">> }

UrlHosts ==
  { <<"x", ".", "c", "o">>,
      <<"u", "s", "e", "r", "@", "h", "o", "s", "t", ".", "c", "o", "m">> }

UrlPaths ==
  { <<>>,
      <<"/", "x">>,
      <<"/", "a", ".", "p", "n", "g">>,
      <<"/", "a", ".", "P", "N", "G">>,
      <<"/", "a", ".", "j", "p", "e", "g">>,
      <<"/", "a", ".", "t", "x", "t">> }

UrlTails ==
  { <<>>,
      <<"?", "v", "=", "1">>,
      <<"?", "f", "=", "b", ".", "p", "n", "g">>,
      <<"#", "t">> }

EncodeTexts == {p \o h \o q \o r : p \in UrlPrefixes, h \in UrlHosts, q \in UrlPaths, r \in UrlTails}

InitEncode == Given(EncodeTexts) /\ Constructed({"A"})

OnEncode == Encode

NextEncode == OnEncode

SpecEncode == InitEncode /\ [][NextEncode]_vars

(* ------------------------- the element tree --------------------------- *)

\* A child of the element: a text node, an anchor (attr is its href
\* attribute, data its text), an image (attr is its src attribute) or a line
\* break.
Node(tag, attr, data) == [tag |-> tag, attr |-> attr, data |-> data]

TextNode(data) == Node("#text", <<>>, data)

AnchorOpen == <<"<", "a", " ", "h", "r", "e", "f", "=", "\"">>

AnchorClose == <<"<", "/", "a", ">">>

ImageOpen == <<"<", "i", "m", "g", " ", "s", "r", "c", "=", "\"">>

\* The children the HTML parser builds for the markup the encoder writes:
\* anchors that hold text, images, line breaks and text between them.
RECURSIVE parseHTML(_)
parseHTML(h) ==
  IF h = <<>> THEN <<>>
  ELSE IF StartsWithAt(h, AnchorOpen, 1)
    THEN LET q == FirstOf(h, {"\""}, Len(AnchorOpen) + 1)
             c == indexOf(h, AnchorClose, q + 2)
         IN <<Node("a", SubSeq(h, Len(AnchorOpen) + 1, q - 1), SubSeq(h, q + 2, c - 1))>>
              \o parseHTML(SubSeq(h, c + Len(AnchorClose), Len(h)))
  ELSE IF StartsWithAt(h, ImageOpen, 1)
    THEN LET q == FirstOf(h, {"\""}, Len(ImageOpen) + 1)
         IN <<Node("img", SubSeq(h, Len(ImageOpen) + 1, q - 1), <<>>)>>
              \o parseHTML(SubSeq(h, q + 2, Len(h)))
  ELSE IF StartsWithAt(h, BR, 1)
    THEN <<Node("br", <<>>, <<>>)>> \o parseHTML(SubSeq(h, Len(BR) + 1, Len(h)))
  ELSE LET e == FirstOf(h, {"<"}, 2)
       IN <<TextNode(SubSeq(h, 1, e - 1))>> \o parseHTML(SubSeq(h, e, Len(h)))

\* The origin of the document the element belongs to.
Origin == <<"h", "t", "t", "p", ":", "/", "/", "w", "i", "k", "i">>

IsMailto(u) == StartsWithAt(u, MAILTO, 1)

HasAuthority(u) == \E p \in URLPrefixes : Len(p) > 4 /\ StartsWithAt(u, p, 1)

\* The attribute value resolved against the document: a value with a scheme
\* stands as it is, any other is a path of the document's origin.
Absolute(u) ==
  IF IsMailto(u) \/ HasAuthority(u) THEN u
  ELSE IF u # <<>> /\ u[1] = "/" THEN Origin \o u
  ELSE Origin \o <<"/">> \o u

\* The place where the path of absolute URL v starts.
PathStart(v) == FirstOf(v, {"/", "?", "#"}, indexOf(v, <<":", "/", "/">>, 1) + 3)

\* anchor.href and image.src: the resolved URL; a URL with no path gets the
\* path "/".
href(attr) ==
  LET v == Absolute(attr)
      b == PathStart(v)
  IN IF IsMailto(v) \/ (b <= Len(v) /\ v[b] = "/") THEN v
     ELSE SubSeq(v, 1, b - 1) \o <<"/">> \o SubSeq(v, b, Len(v))

\* anchor.pathname: the path of the resolved URL.
pathname(attr) ==
  LET v == href(attr)
      b == PathStart(v)
  IN IF IsMailto(v) THEN SubSeq(v, Len(MAILTO) + 1, Len(v))
     ELSE SubSeq(v, b, FirstOf(v, {"?", "#"}, b) - 1)

\* element.innerText: the text of the text nodes and of the anchors, a line
\* feed for a line break, nothing for an image.
RECURSIVE innerText(_)
innerText(nodes) ==
  IF nodes = <<>> THEN <<>>
  ELSE (CASE Head(nodes).tag = "br" -> <<"\n">>
          [] Head(nodes).tag = "img" -> <<>>
          [] OTHER -> Head(nodes).data) \o innerText(Tail(nodes))

\* node.replaceWith(string): a text node takes the place of child k.
replaceWith(nodes, k, data) == [nodes EXCEPT ![k] = TextNode(data)]

\* The loop of htmlToText over the images.
ImagesLoop(nodes) ==
  [k \in DOMAIN nodes |->
     IF nodes[k].tag = "img" THEN TextNode(href(nodes[k].attr)) ELSE nodes[k]]

\* The loop of htmlToText over the anchors, from child k on, with
\* URL_REGEXP.lastIndex at li: the children and the lastIndex the function
\* leaves. The function returns from inside the loop in two of its
\* branches; when the loop ends, the loop over the images follows.
RECURSIVE AnchorsLoop(_, _, _)
AnchorsLoop(nodes, k, li) ==
  IF k > Len(nodes) THEN [el |-> ImagesLoop(nodes), lastIndex |-> li]
  ELSE IF nodes[k].tag # "a" THEN AnchorsLoop(nodes, k + 1, li)
  ELSE IF Contains(href(nodes[k].attr), MAILTO)
    THEN AnchorsLoop(replaceWith(nodes, k, nodes[k].data), k + 1, li)
  ELSE IF test("URL_REGEXP", nodes[k].data, li).result
    THEN [el |-> replaceWith(nodes, k, nodes[k].data),
          lastIndex |-> test("URL_REGEXP", nodes[k].data, li).lastIndex]
  ELSE IF slice(decodeURIComponent(pathname(nodes[k].attr)), 1) = nodes[k].data
    THEN [el |-> replaceWith(nodes, k, <<"[", "[">> \o nodes[k].data \o <<"]", "]">>),
          lastIndex |-> 0]
  ELSE AnchorsLoop(replaceWith(nodes, k,
                               <<"[", "[">> \o nodes[k].data \o <<"|">>
                                 \o slice(decodeURIComponent(pathname(nodes[k].attr)), 1)
                                 \o <<"]", "]">>),
                   k + 1, 0)

\* htmlToText, with URL_REGEXP.lastIndex at li when it is called.
htmlToText(nodes, li) == AnchorsLoop(nodes, 1, li)

(* ------- encoding and decoding (specification SpecCodec) -------------- *)

\* htmlToText calls in a run.
MaxCalls == 2

\* The page makes the markup textToHtml returned the content of el.
Parse ==
  /\ pc = "textToHtml"
  /\ el' = parseHTML(html)
  /\ pc' = "parsed"
  /\ UNCHANGED <<text, html, lastIndex, calls>>
  /\ UNCHANGED coordinator

\* The page calls htmlToText(el).
Decode ==
  /\ calls < MaxCalls
  /\ pc \in {"parsed", "htmlToText"}
  /\ el' = htmlToText(el, lastIndex).el
  /\ lastIndex' = htmlToText(el, lastIndex).lastIndex
  /\ calls' = calls + 1
  /\ pc' = "htmlToText"
  /\ UNCHANGED <<text, html>>
  /\ UNCHANGED coordinator

\* The spans of the texts: bare and aliased wiki-links, URLs, an image URL,
\* an email address, a word.
Spans ==
  { <<"[", "[", "A", "]", "]">>,
    <<"[", "[", "B", "]", "]">>,
    <<"[", "[", "a", "|", "B", "]", "]">>,
    <<"[", "[", "A", " ", "B", "]", "]">>,
    <<"h", "t", "t", "p", ":", "/", "/", "x", ".", "c", "o", "/", "a">>,
    <<"w", "w", "w", ".", "y", ".", "c", "o">>,
    <<"h", "t", "t", "p", ":", "/", "/", "x", ".", "c", "o", "/", "a", ".", "p", "n", "g">>,
    <<"a", "@", "b", ".", "c", "o">>,
    <<"h", "i">> }

\* Texts of one span, of two different spans, and of two lines.
CodecTexts ==
  Spans
    \cup {p[1] \o <<" ">> \o p[2] : p \in {q \in Spans \X Spans : q[1] # q[2]}}
    \cup {<<"h", "i", "\n", "[", "[", "A", "]", "]">>}

InitCodec == Given(CodecTexts) /\ Constructed({"A"})

OnParse == Parse

OnDecode == Decode

NextCodec == OnEncode \/ OnParse \/ OnDecode

SpecCodec == InitCodec /\ [][NextCodec]_vars

(* ------------------------------- claims ------------------------------- *)

\* The step just taken: context c handled a message of type t.
Handled(c, t) == last.op = "message" /\ last.ctx = c /\ last.msg.type = t

\* The step just taken: the write of context c was answered with a status.
Answered(c) == last.op = "response" /\ last.ctx = c

\* The step just taken: the write of context c was rejected.
Rejected(c) == last.op = "reject" /\ last.ctx = c

InFlight(c) == Len(net[c])

\* C1: one coordinator never has more than one outbound write in flight, and
\* a SAVE that arrives while its write is in flight is dropped: no write is
\* issued for it and the one in flight stays the only one.
C1_AtMostOneWriteInFlight ==
  /\ \A c \in Contexts : InFlight(c) <= 1
  /\ [][\A c \in Contexts :
          /\ InFlight(c)' <= 1
          /\ (Handled(c, "SAVE")' /\ InFlight(c) = 1) =>
               (net'[c] = net[c] /\ issued'[c] = issued[c] /\ state'[c] = state[c])]_vars

\* A second SAVE arrived while the first write was in flight and was dropped.
C1_Witness ==
  /\ Handled("A", "SAVE") /\ last.pre = "submitting"
  /\ InFlight("A") = 1 /\ issued["A"] = 1

RECURSIVE SumInFlight(_)
SumInFlight(cs) ==
  IF cs = {} THEN 0
  ELSE LET c == CHOOSE x \in cs : TRUE IN InFlight(c) + SumInFlight(cs \ {c})

\* C2 as stated: over all contexts of the document at most one outbound
\* write is in flight.
C2_OneWritePerDocument == SumInFlight(Contexts) <= 1

\* C2 as amended: every context has at most one outbound write in flight,
\* and only while it is submitting; over the document there are at most as
\* many as there are contexts.
C2_OneWritePerContext ==
  /\ \A c \in Contexts : InFlight(c) <= 1 /\ (InFlight(c) = 1 => state[c] = "submitting")
  /\ SumInFlight(Contexts) <= Cardinality(Contexts)

\* Both tabs have a write of the same document in flight.
C2_Witness == InFlight("A") = 1 /\ InFlight("B") = 1

\* C3: a response with a failing status puts the coordinator in error.
C3_FailingStatusSendsError ==
  \A c \in Contexts : (Answered(c) /\ last.status >= 400) => state[c] = "error"

\* C4: a success response calls updateMRU once, with the title written,
\* and returns the coordinator from submitting to idle, where a SAVE is
\* accepted again.
C4_SuccessCompletes ==
  [][\A c \in Contexts :
       /\ (Answered(c)' /\ last'.status < 400 /\ net'[c] # net[c]) =>
            /\ mru'[c] = Append(mru[c], net[c][1].title)
            /\ state[c] = "submitting" /\ state'[c] = "idle"
       /\ (Handled(c, "SAVE")' /\ state[c] = "idle" /\ state'[c] # "idle") =>
            /\ state'[c] = "submitting"
            /\ ~last'.threw => (InFlight(c)' = 1 /\ issued'[c] = issued[c] + 1)]_vars

\* After a success response a second SAVE was accepted and its write issued.
C4_Witness ==
  /\ Handled("A", "SAVE") /\ last.pre = "idle"
  /\ mru["A"] = <<"T">> /\ issued["A"] = 2 /\ InFlight("A") = 1

\* C5: a rejected write puts the coordinator in error, and a coordinator in
\* error issues no write.
C5_RejectionGoesToError ==
  [][\A c \in Contexts :
       /\ (Rejected(c)' /\ net'[c] # net[c]) =>
            /\ state[c] = "submitting" /\ state'[c] = "error"
            /\ InFlight(c)' = 0 /\ issued'[c] = issued[c]
       /\ state[c] = "error" => (issued'[c] = issued[c] /\ InFlight(c)' = 0)]_vars

\* A write was rejected, and the coordinator in error then handled a message.
C5_Witness ==
  /\ state["A"] = "error" /\ issued["A"] = 1 /\ InFlight("A") = 0
  /\ last.op = "message" /\ last.pre = "error"

\* The event the step just taken sent to the machine of context c.
EventSent(c) ==
  CASE Handled(c, "SAVE") /\ last.pre = "idle" -> "SUBMITTING"
    [] Answered(c) /\ last.status < 400 -> "COMPLETE"
    [] Rejected(c) -> "ERROR"
    [] OTHER -> "none"

Listed ==
  {<<"idle", "SUBMITTING", "submitting">>, <<"submitting", "COMPLETE", "idle">>,
   <<"submitting", "ERROR", "error">>, <<"error", "RESET", "idle">>}

\* C6: the state starts at idle and changes only by a listed transition; a
\* SAVE handled in error issues no write and leaves the state at error.
C6_OnlyListedTransitions ==
  /\ \A c \in Contexts : state[c] = "idle"
  /\ [][\A c \in Contexts :
          /\ state'[c] # state[c] => <<state[c], EventSent(c)', state'[c]>> \in Listed
          /\ (Handled(c, "SAVE")' /\ state[c] = "error") =>
               (state'[c] = "error" /\ net'[c] = net[c] /\ issued'[c] = issued[c])]_vars

\* A SAVE was handled by a coordinator in error.
C6_Witness == Handled("A", "SAVE") /\ last.pre = "error" /\ state["A"] = "error"

\* C7: a coordinator in error can take a step that brings it to idle (a
\* RESET can be delivered to it).
C7_ResetCanBeDelivered ==
  \A c \in Contexts : state[c] = "error" => ENABLED (Next /\ state'[c] = "idle")

\* C8: handling UNREGISTER(id) removes the entry of id, keeps every other
\* entry as it was and adds none.
C8_UnregisterOnlyRemoves ==
  [][\A c \in Contexts :
       Handled(c, "UNREGISTER")' =>
         components'[c] = SelectSeq(components[c], LAMBDA e : e.key # last'.msg.data.str)]_vars

\* The component values getType("block") returns, by id.
BlockOrder(reg) == [i \in 1..Len(getType(reg, BlockChars)) |-> getType(reg, BlockChars)[i].id]

\* C9: registering a component keeps the order getType("block") returns
\* when its id is registered already, and puts it last when it is new; the
\* entry then holds the component registered.
C9_ReregisterKeepsPosition ==
  [][\A c \in Contexts :
       Handled(c, "REGISTER")' =>
         LET d == last'.msg.data IN
           /\ Lookup(components'[c], d.id) = d
           /\ BlockOrder(components'[c]) =
                IF d.id \in {BlockOrder(components[c])[i] : i \in 1..Len(BlockOrder(components[c]))}
                  THEN BlockOrder(components[c])
                  ELSE Append(BlockOrder(components[c]), d.id)]_vars

\* block-1, block-2, block-3 were registered in that order and block-2 was
\* then registered again.
C9_Witness ==
  /\ Handled("A", "REGISTER") /\ last.msg.data = Obj("block-2", "b")
  /\ BlockOrder(components["A"]) = <<"block-1", "block-2", "block-3">>

\* The contents of the entries of reg whose id holds "block", from entry i on,
\* each followed by a newline.
RECURSIVE BlockLines(_, _)
BlockLines(reg, i) ==
  IF i > Len(reg) THEN ""
  ELSE (IF reg[i].key \in {"block-1", "block-2", "block-3"}
          THEN reg[i].val.content \o "\n" ELSE "")
       \o BlockLines(reg, i + 1)

\* C10: the snapshot written for an accepted SAVE(partial) is taken from the
\* registry with partial.content merged in: its body is the contents of the
\* block components in registry order, newline-separated, and its title,
\* tags and metadata are the contents of those components.
C10_SnapshotAfterMerge ==
  [][\A c \in Contexts :
       (Handled(c, "SAVE")' /\ issued'[c] = issued[c] + 1) =>
         LET p == last'.msg.data
             reg == components'[c]
             w == net'[c][Len(net'[c])]
         IN /\ Len(reg) = Len(components[c])
            /\ \A i \in 1..Len(reg) :
                 IF p.kind = "object" /\ reg[i].key = p.id
                   THEN reg[i].val = Obj(p.id, p.content)
                   ELSE reg[i] = components[c][i]
            /\ w.body \o "\n" = BlockLines(reg, 1) \/ (w.body = "" /\ BlockLines(reg, 1) = "")
            /\ w.title = Lookup(reg, "title").content
            /\ w.tags = Lookup(reg, "tag").content
            /\ w.metadata = Lookup(reg, "metadata").content]_vars

\* A SAVE that edits block-1 was accepted with block-2 registered before
\* block-1: the body written lists block-2, then the new content of block-1.
C10_Witness ==
  /\ Handled("A", "SAVE") /\ last.msg.data = Obj("block-1", "c")
  /\ InFlight("A") = 1 /\ net["A"][1].body = "b\nc"

\* C11: no step of the message handler ends in an exception.
C11_NoExceptionLeavesHandler == ~last.threw

\* C13: a SAVE handled in submitting or error changes neither the state, the
\* registry, the writes in flight nor the writes issued, and it is not kept
\* for later: a write is only ever issued by the step that handles a SAVE
\* in idle.
C13_SaveDroppedOutsideIdle ==
  [][\A c \in Contexts :
       /\ (Handled(c, "SAVE")' /\ state[c] \in {"submitting", "error"}) =>
            /\ state'[c] = state[c] /\ components'[c] = components[c]
            /\ net'[c] = net[c] /\ issued'[c] = issued[c] /\ inbox'[c] = inbox[c]
       /\ issued'[c] # issued[c] => (Handled(c, "SAVE")' /\ state[c] = "idle")]_vars

\* A SAVE that edits the title was handled while a write was in flight, and
\* the title is not edited.
C13_Witness ==
  /\ Handled("A", "SAVE") /\ last.pre = "submitting" /\ last.msg.data = Obj("title", "T2")
  /\ InFlight("A") = 1 /\ Lookup(components["A"], "title") = Obj("title", "T")

\* C14: a REGISTER handled in any state leaves the registry mapping the id
\* to the component, every other entry as it was, and the state as it was.
C14_RegisterInEveryState ==
  [][\A c \in Contexts :
       Handled(c, "REGISTER")' =>
         LET d == last'.msg.data IN
           /\ HasKey(components'[c], d.id) /\ Lookup(components'[c], d.id) = d
           /\ \A k \in DOMAIN Chars \ {d.id} :
                /\ HasKey(components'[c], k) <=> HasKey(components[c], k)
                /\ HasKey(components[c], k) =>
                     Lookup(components'[c], k) = Lookup(components[c], k)
           /\ state'[c] = state[c] /\ net'[c] = net[c]]_vars

\* The title was registered again, over an edited title, between the issue of
\* a write and its response.
C14_Witness ==
  /\ Handled("A", "REGISTER") /\ last.pre = "submitting" /\ InFlight("A") = 1
  /\ last.msg.data = Obj("title", "T") /\ net["A"][1].title = "T2"

\* C19: UNREGISTER(id) leaves no entry of id, a component registered while
\* its id has no entry becomes the last entry of the registry, and the body
\* a save writes lists the block contents in that order.
C19_RegisteredAgainIsLast ==
  [][\A c \in Contexts :
       /\ Handled(c, "UNREGISTER")' => ~HasKey(components'[c], last'.msg.data.str)
       /\ (Handled(c, "REGISTER")' /\ ~HasKey(components[c], last'.msg.data.id)) =>
            /\ Len(components'[c]) = Len(components[c]) + 1
            /\ components'[c][Len(components'[c])] =
                 [key |-> last'.msg.data.id, val |-> last'.msg.data]
       /\ (Handled(c, "SAVE")' /\ issued'[c] = issued[c] + 1) =>
            LET w == net'[c][Len(net'[c])]
            IN \/ w.body \o "\n" = BlockLines(components'[c], 1)
               \/ (w.body = "" /\ BlockLines(components'[c], 1) = "")]_vars

\* block-2 was registered, block-1 was unregistered and registered after
\* that, and a save wrote the body with block-2 before block-1.
C19_Witness ==
  /\ Handled("A", "SAVE") /\ InFlight("A") = 1 /\ net["A"][1].body = "b\na"
  /\ \E i, j, k \in 1..Len(components["A"]) :
       /\ i < j /\ j < k
       /\ components["A"][i].key = "block-2"
       /\ components["A"][j] = [key |-> "undefined", val |-> Str("block-1")]
       /\ components["A"][k].key = "block-1"

\* The text handed to the encoder is one URL from its first character to its
\* last.
TextIsOneURL == text # <<>> /\ exec("URL_REGEXP", text, 0) = [from |-> 1, to |-> Len(text) + 1]

\* The path of URL u: what follows the host, up to the query string or the
\* fragment.
PathOf(u) ==
  LET i == indexOf(u, <<":", "/", "/">>, 1)
      a == IF i = 0 THEN 1 ELSE i + 3
      b == FirstOf(u, {"/", "?", "#"}, a)
      c == FirstOf(u, {"?", "#"}, b)
  IN SubSeq(u, b, c - 1)

PathIsImage(u) == \E x \in ImageExtensions : EndsWithIgnoreCase(PathOf(u), <<".">> \o x)

\* C17: a URL span is emitted as exactly one hyperlink whose destination and
\* visible text are the literal URL; no later step of textToHtml rewrites
\* what the URL step emitted.
C17_URLSpanIsOneHyperlink ==
  pc = "textToHtml" /\ TextIsOneURL /\ ~isSpecialtyUrl(text) => html = Anchor(text, text)

\* C18: the image test of the encoder is true exactly when the path of the
\* URL ends with an image extension, whatever query string or fragment
\* follows the path.
C18_ImageTestLooksAtPath ==
  pc = "textToHtml" /\ TextIsOneURL => (isSpecialtyUrl(text) <=> PathIsImage(text))

\* C12: decoding the parsed result of textToHtml(t) gives back t, also when
\* t holds more than one span (no text of the model holds a span twice or an
\* alias that looks like a URL).
C12_RoundTrip ==
  [][pc = "parsed" /\ pc' = "htmlToText" => innerText(el') = text]_vars

\* C15: after a call of htmlToText no anchor and no image is left in the
\* tree, whatever elements it held and in whatever order.
C15_EveryElementConverted ==
  pc = "htmlToText" => \A k \in DOMAIN el : el[k].tag \notin {"a", "img"}

\* The string matches the URL pattern (a test that keeps no state).
LooksLikeURL(s) == exec("URL_REGEXP", s, 0) # NoMatch

\* C16: on every call of htmlToText, whatever calls went before, the first
\* link of the tree whose visible text matches the URL pattern is replaced
\* by that text verbatim.
C16_URLTextLinkVerbatim ==
  [][pc' = "htmlToText" /\ calls' = calls + 1 =>
       \A k \in DOMAIN el :
          /\ el[k].tag = "a"
          /\ \A j \in 1..(k - 1) : el[j].tag # "a"
          /\ ~Contains(href(el[k].attr), MAILTO)
          /\ LooksLikeURL(el[k].data)
          => el'[k] = TextNode(el[k].data)]_vars

====
